---- MODULE Spec2Model ----
(***************************************************************************)
(* A model of the controller remapper add-on (src/__init__.py): the        *)
(* joystick event decoder with its rising-edge detection, the worker       *)
(* thread's run loop with start()/stop(), the key dispatcher, and the      *)
(* configuration file's load and save.                                     *)
(*                                                                         *)
(* Python values are tagged records (PyStr, PyDict, ...); a Python str is  *)
(* a TLA+ string, read character by character with SubSeq; a dict is the   *)
(* sequence of its <<key, value>> items in insertion order.                *)
(***************************************************************************)
EXTENDS Integers, Sequences, FiniteSets, TLC

\* The worker threads that can be alive at once.
MaxWorkers == 2

VARIABLES
    mappings,      \* self.mappings: the value load_config returned, mutated by the dialog
    running,       \* self.running
    thread,        \* self.thread: 0 is None, w > 0 the Thread object of worker w
    js_device,     \* self.js_device: 0 is None, w > 0 the file worker w opened
    last_state,    \* self.last_state: dict of state key -> bool
    event_queue,   \* self.event_queue: the deque made in __init__
    file,          \* the configuration file CONFIG_FILE on disk
    dev,           \* the joystick device node: "ok" or "gone"
    main_pc,       \* the main thread: "idle", or "join" inside stop()'s thread.join
    pc,            \* pc[w]: where worker thread w is in run_loop
    rec,           \* rec[w]: the record worker w unpacked and is handling
    call,          \* call[w]: worker w's frame of send_key_event
    last_call,     \* the call the last step made: start/stop/join by the main thread (by 0)
                   \* with self.running as it found it; sendEvent, close, or a read that returned no
                   \* record, by worker `by'
    obs,           \* decoder observation: the last record, the state before it, its dispatch
    phys,          \* the physical activity of each input as the records report it
    scen,          \* progress of the axis-0 scenario and the dispatches it produced
    cfg_op,        \* the last operation on the configuration
    saved,         \* the mapping the last completed save_config wrote, while the file is its own
    probe          \* the last call of a pure function under test: its input and its result

vars == <<mappings, running, thread, js_device, last_state, event_queue, file, dev,
          main_pc, pc, rec, call, last_call, obs, phys, scen, cfg_op, saved, probe>>

(***************************************************************************)
(* Python values                                                           *)
(***************************************************************************)
PyNone == [t |-> "none", s |-> "", items |-> <<>>]
PyStr(x) == [t |-> "str", s |-> x, items |-> <<>>]
PyNum(x) == [t |-> "num", s |-> x, items |-> <<>>]
PyList(it) == [t |-> "list", s |-> "", items |-> it]
PyDict(it) == [t |-> "dict", s |-> "", items |-> it]

\* bool(v): None, "", 0 and empty containers are false.
Truthy(v) ==
    CASE v.t = "none" -> FALSE
      [] v.t = "str" -> v.s # ""
      [] v.t = "num" -> v.s \notin {"0", "-0"}
      [] v.t = "bool" -> v.s = "true"
      [] OTHER -> v.items # <<>>

\* d.get(k) on a dict: the value stored under k, or None.
DictGet(d, k) ==
    LET idx == {i \in 1..Len(d.items) : d.items[i][1] = k}
    IN  IF idx = {} THEN PyNone ELSE d.items[CHOOSE i \in idx : TRUE][2]

DictKeys(d) == {d.items[i][1] : i \in 1..Len(d.items)}

\* d[k] = v: an existing key keeps its place, a new one goes last.
DictSet(d, k, v) ==
    IF k \in DictKeys(d)
    THEN PyDict([i \in 1..Len(d.items) |->
                    IF d.items[i][1] = k THEN <<k, v>> ELSE d.items[i]])
    ELSE PyDict(Append(d.items, <<k, v>>))

\* del d[k]
DictDel(d, k) == PyDict(SelectSeq(d.items, LAMBDA it : it[1] # k))

(***************************************************************************)
(* Module constants                                                        *)
(***************************************************************************)
DEFAULT_MAPPINGS ==
    PyDict(<< <<"A", PyStr(" ")>>,
              <<"B", PyStr("Return")>>,
              <<"X", PyStr("z")>>,
              <<"Y", PyStr("x")>>,
              <<"LEFT", PyStr("Left")>>,
              <<"RIGHT", PyStr("Right")>>,
              <<"UP", PyStr("Up")>>,
              <<"DOWN", PyStr("Down")>>,
              <<"LEFT_SHOULDER", PyStr("Ctrl+Shift+z")>>,
              <<"RIGHT_SHOULDER", PyStr("Ctrl+z")>>,
              <<"START", PyStr("Return")>>,
              <<"SELECT", PyStr("Backspace")>>,
              <<"LEFT_TRIGGER", PyStr("Ctrl+Shift+z")>>,
              <<"RIGHT_TRIGGER", PyStr("Ctrl+y")>> >>)

JS_EVENT_BUTTON == 1
JS_EVENT_AXIS == 2
JS_EVENT_INIT == 128

\* struct.calcsize("@IhBB")
EVENT_SIZE == 8

\* CONTROLLER_BUTTONS.get(n): the button's name, "" for None.
CONTROLLER_BUTTONS(n) ==
    CASE n = 0 -> "A"
      [] n = 1 -> "B"
      [] n = 2 -> "X"
      [] n = 3 -> "Y"
      [] n = 4 -> "LEFT_SHOULDER"
      [] n = 5 -> "RIGHT_SHOULDER"
      [] n = 6 -> "SELECT"
      [] n = 7 -> "START"
      [] n = 8 -> "LEFT_STICK"
      [] n = 9 -> "RIGHT_STICK"
      [] n = 10 -> "LEFT_TRIGGER"
      [] n = 11 -> "RIGHT_TRIGGER"
      [] OTHER -> ""

(***************************************************************************)
(* The event record: struct.unpack("@IhBB", data) on a little-endian host  *)
(***************************************************************************)
\* The kernel's side: the 8 bytes of struct js_event {u32 time; s16 value; u8 type; u8 number}.
Pack(timestamp, value, event_type, number) ==
    LET u == IF value < 0 THEN value + 65536 ELSE value
    IN  << timestamp % 256, (timestamp \div 256) % 256,
           (timestamp \div 65536) % 256, (timestamp \div 16777216) % 256,
           u % 256, u \div 256, event_type, number >>

Unpack(data) ==
    LET u == data[5] + 256 * data[6]
    IN  [timestamp |-> data[1] + 256 * data[2] + 65536 * data[3] + 16777216 * data[4],
         value |-> IF u >= 32768 THEN u - 65536 ELSE u,
         event_type |-> data[7],
         number |-> data[8]]

\* A test of the type for equality with the mask, where the code masks a bit.
HasBit_TypeEqualsMask(event_type, mask) == event_type = mask

\* event_type & mask, for a one-bit mask: whether the bit is set.
HasBit(event_type, mask) == (event_type \div mask) % 2 = 1

(***************************************************************************)
(* self.last_state                                                         *)
(***************************************************************************)
EmptyState == [k \in {} |-> FALSE]

\* self.last_state.get(k, False)
StateGet(ls, k) == IF k \in DOMAIN ls THEN ls[k] ELSE FALSE

\* self.last_state[k] = v
StateSet(ls, k, v) == [x \in (DOMAIN ls) \cup {k} |-> IF x = k THEN v ELSE ls[x]]

\* self.last_state.pop(k, None)
StatePop(ls, k) == [x \in (DOMAIN ls) \ {k} |-> ls[x]]

\* f"button_{button_num}"
ButtonKey(n) == "button_" \o ToString(n)

\* axis_value = value / 32767.0; axis_value < -0.5 and axis_value > 0.5, in integers.
\* The negative test with the threshold value itself left out.
AxisNegative_BelowThreshold(value) == 2 * value < -32769

AxisNegative(value) == 2 * value < -32767
AxisPositive(value) == 2 * value > 32767

\* The two directions of an axis the loop handles: their names and state keys.
AxisNegName(axis_num) == IF axis_num = 0 THEN "LEFT" ELSE "UP"
AxisPosName(axis_num) == IF axis_num = 0 THEN "RIGHT" ELSE "DOWN"
AxisKey(axis_num, name) == "axis_" \o ToString(axis_num) \o "_" \o name

NoDispatch == [name |-> "", combo |-> PyNone]

\* Lookup without the "if key_combo" test.
Lookup_NoTruthTest(m, name) == [name |-> name, combo |-> DictGet(m, name)]

\* self.mappings.get(name), and the call of send_key_event if it is truthy.
Lookup(m, name) ==
    LET key_combo == DictGet(m, name)
    IN  IF Truthy(key_combo) THEN [name |-> name, combo |-> key_combo] ELSE NoDispatch

(***************************************************************************)
(* process_controller_input, one record: first the rising-edge test and    *)
(* the dispatch it decides, then the update of last_state.                 *)
(***************************************************************************)
\* Decide without the test of last_state: every active record dispatches.
Decide_NoEdgeTest(ls, m, ev) ==
    IF HasBit(ev.event_type, JS_EVENT_BUTTON)
    THEN IF CONTROLLER_BUTTONS(ev.number) # "" /\ ev.value # 0
         THEN Lookup(m, CONTROLLER_BUTTONS(ev.number))
         ELSE NoDispatch
    ELSE IF HasBit(ev.event_type, JS_EVENT_AXIS) /\ ev.number \in {0, 1}
    THEN IF AxisNegative(ev.value) THEN Lookup(m, AxisNegName(ev.number))
         ELSE IF AxisPositive(ev.value) THEN Lookup(m, AxisPosName(ev.number))
         ELSE NoDispatch
    ELSE NoDispatch

Decide(ls, m, ev) ==
    IF HasBit(ev.event_type, JS_EVENT_BUTTON)
    THEN LET button_name == CONTROLLER_BUTTONS(ev.number)
             button_state == ev.value # 0
         IN  IF button_name # "" /\ button_state /\ ~StateGet(ls, ButtonKey(ev.number))
             THEN Lookup(m, button_name)
             ELSE NoDispatch
    ELSE IF HasBit(ev.event_type, JS_EVENT_AXIS) /\ ev.number \in {0, 1}
    THEN IF AxisNegative(ev.value)
         THEN IF ~StateGet(ls, AxisKey(ev.number, AxisNegName(ev.number)))
              THEN Lookup(m, AxisNegName(ev.number))
              ELSE NoDispatch
         ELSE IF AxisPositive(ev.value)
         THEN IF ~StateGet(ls, AxisKey(ev.number, AxisPosName(ev.number)))
              THEN Lookup(m, AxisPosName(ev.number))
              ELSE NoDispatch
         ELSE NoDispatch
    ELSE NoDispatch

\* UpdateState whose deadzone branch leaves the direction flags as they are.
UpdateState_DeadzoneKeeps(ls, ev) ==
    IF HasBit(ev.event_type, JS_EVENT_BUTTON)
    THEN StateSet(ls, ButtonKey(ev.number), ev.value # 0)
    ELSE IF HasBit(ev.event_type, JS_EVENT_AXIS) /\ ev.number \in {0, 1}
    THEN IF AxisNegative(ev.value)
         THEN StateSet(ls, AxisKey(ev.number, AxisNegName(ev.number)), TRUE)
         ELSE IF AxisPositive(ev.value)
         THEN StateSet(ls, AxisKey(ev.number, AxisPosName(ev.number)), TRUE)
         ELSE ls
    ELSE ls

UpdateState(ls, ev) ==
    IF HasBit(ev.event_type, JS_EVENT_BUTTON)
    THEN StateSet(ls, ButtonKey(ev.number), ev.value # 0)
    ELSE IF HasBit(ev.event_type, JS_EVENT_AXIS) /\ ev.number \in {0, 1}
    THEN IF AxisNegative(ev.value)
         THEN StateSet(ls, AxisKey(ev.number, AxisNegName(ev.number)), TRUE)
         ELSE IF AxisPositive(ev.value)
         THEN StateSet(ls, AxisKey(ev.number, AxisPosName(ev.number)), TRUE)
         ELSE StatePop(StatePop(ls, AxisKey(ev.number, AxisNegName(ev.number))),
                       AxisKey(ev.number, AxisPosName(ev.number)))
    ELSE ls

(***************************************************************************)
(* Python str methods, character by character                              *)
(***************************************************************************)
Char(str, i) == SubSeq(str, i, i)
Whitespace == {" ", "\t", "\n", "\r"}
DigitChars == {"0", "1", "2", "3", "4", "5", "6", "7", "8", "9"}

\* str.lower() and str.upper() of one ASCII letter.
LowerOf ==
    [A |-> "a", B |-> "b", C |-> "c", D |-> "d", E |-> "e", F |-> "f", G |-> "g",
     H |-> "h", I |-> "i", J |-> "j", K |-> "k", L |-> "l", M |-> "m", N |-> "n",
     O |-> "o", P |-> "p", Q |-> "q", R |-> "r", S |-> "s", T |-> "t", U |-> "u",
     V |-> "v", W |-> "w", X |-> "x", Y |-> "y", Z |-> "z"]
UpperOf ==
    [a |-> "A", b |-> "B", c |-> "C", d |-> "D", e |-> "E", f |-> "F", g |-> "G",
     h |-> "H", i |-> "I", j |-> "J", k |-> "K", l |-> "L", m |-> "M", n |-> "N",
     o |-> "O", p |-> "P", q |-> "Q", r |-> "R", s |-> "S", t |-> "T", u |-> "U",
     v |-> "V", w |-> "W", x |-> "X", y |-> "Y", z |-> "Z"]

LowerChar(c) == IF c \in DOMAIN LowerOf THEN LowerOf[c] ELSE c
UpperChar(c) == IF c \in DOMAIN UpperOf THEN UpperOf[c] ELSE c

\* Only({e(v) : v \in {x}}) is e(x), with x evaluated once however often e uses it.
Only(S) == CHOOSE x \in S : TRUE

RECURSIVE LowerFrom(_, _)
LowerFrom(str, i) ==
    IF i > Len(str) THEN "" ELSE LowerChar(Char(str, i)) \o LowerFrom(str, i + 1)

\* str.lower()
StrLower(str) == Only({LowerFrom(s, 1) : s \in {str}})

RECURSIVE UpperFrom(_, _)
UpperFrom(str, i) ==
    IF i > Len(str) THEN "" ELSE UpperChar(Char(str, i)) \o UpperFrom(str, i + 1)

\* str.upper()
StrUpper(str) == Only({UpperFrom(s, 1) : s \in {str}})

RECURSIVE LStrip(_)
LStrip(str) ==
    IF str # "" /\ Char(str, 1) \in Whitespace THEN LStrip(Tail(str)) ELSE str

RECURSIVE RStrip(_)
RStrip(str) ==
    IF str # "" /\ Char(str, Len(str)) \in Whitespace
    THEN RStrip(SubSeq(str, 1, Len(str) - 1))
    ELSE str

\* str.strip()
StrStrip(str) == Only({RStrip(t) : t \in {LStrip(s) : s \in {str}}})

\* str.split(sep) for a one-character sep: the parts between the separators.
RECURSIVE SplitFrom(_, _, _, _)
SplitFrom(str, i, sep, part) ==
    IF i > Len(str) THEN <<part>>
    ELSE IF Char(str, i) = sep THEN <<part>> \o SplitFrom(str, i + 1, sep, "")
    ELSE SplitFrom(str, i + 1, sep, part \o Char(str, i))

StrSplit(str, sep) == Only({SplitFrom(s, 1, sep, "") : s \in {str}})

\* A parse that never updates key: the first non-modifier part stays.
RECURSIVE ParseParts_KeepsFirstKey(_, _, _, _)
ParseParts_KeepsFirstKey(parts, i, modifiers, key) ==
    IF i > Len(parts) THEN [modifiers |-> modifiers, key |-> key]
    ELSE Only({ IF part \in {"ctrl", "control"}
                THEN ParseParts_KeepsFirstKey(parts, i + 1, Append(modifiers, "ctrl"), key)
                ELSE IF part = "shift"
                THEN ParseParts_KeepsFirstKey(parts, i + 1, Append(modifiers, "shift"), key)
                ELSE IF part = "alt"
                THEN ParseParts_KeepsFirstKey(parts, i + 1, Append(modifiers, "alt"), key)
                ELSE ParseParts_KeepsFirstKey(parts, i + 1, modifiers,
                                              IF key = PyNone THEN PyStr(part) ELSE key)
                : part \in {StrLower(StrStrip(parts[i]))} })

(***************************************************************************)
(* The key dispatcher: parse_key_combination, get_key_code, send_key_event *)
(***************************************************************************)
\* The loop of parse_key_combination over parts[i..]: the modifiers list and the key.
RECURSIVE ParseParts(_, _, _, _)
ParseParts(parts, i, modifiers, key) ==
    IF i > Len(parts) THEN [modifiers |-> modifiers, key |-> key]
    ELSE Only({ IF part \in {"ctrl", "control"}
                THEN ParseParts(parts, i + 1, Append(modifiers, "ctrl"), key)
                ELSE IF part = "shift"
                THEN ParseParts(parts, i + 1, Append(modifiers, "shift"), key)
                ELSE IF part = "alt"
                THEN ParseParts(parts, i + 1, Append(modifiers, "alt"), key)
                ELSE ParseParts(parts, i + 1, modifiers, PyStr(part))
                : part \in {StrLower(StrStrip(parts[i]))} })

parse_key_combination(combo) ==
    Only({ParseParts(parts, 1, <<>>, PyNone) : parts \in {StrSplit(combo, "+")}})

\* The names of special_keys, each mapped to its Qt key.
SpecialKeys ==
    [space |-> "Key_Space", return |-> "Key_Return", enter |-> "Key_Enter",
     backspace |-> "Key_Backspace", delete |-> "Key_Delete", escape |-> "Key_Escape",
     tab |-> "Key_Tab", up |-> "Key_Up", down |-> "Key_Down", left |-> "Key_Left",
     right |-> "Key_Right", home |-> "Key_Home", end |-> "Key_End",
     pageup |-> "Key_PageUp", pagedown |-> "Key_PageDown",
     f1 |-> "Key_F1", f2 |-> "Key_F2", f3 |-> "Key_F3", f4 |-> "Key_F4",
     f5 |-> "Key_F5", f6 |-> "Key_F6", f7 |-> "Key_F7", f8 |-> "Key_F8",
     f9 |-> "Key_F9", f10 |-> "Key_F10", f11 |-> "Key_F11", f12 |-> "Key_F12"]

\* getattr(Qt, "Key_" + c, None) for one character: Qt names the letter and digit keys so.
QtHasKeyNamed(c) == c \in DOMAIN LowerOf \/ c \in DigitChars

\* get_key_code(key): the Qt key, "" for None.
get_key_code(key) ==
    Only({ IF Len(k) = 1
           THEN IF QtHasKeyNamed(StrUpper(k)) THEN "Key_" \o StrUpper(k) ELSE ""
           ELSE IF StrLower(k) \in DOMAIN SpecialKeys THEN SpecialKeys[StrLower(k)] ELSE ""
           : k \in {key} })

\* send_key_event(key_combo) up to the focus test: the key event it would send,
\* kind "none" when it returns without sending.
NoKeyEvent == [kind |-> "none", key_code |-> "", modifier_flags |-> {}]

KeyEventOf(modifiers, key_code) ==
    IF key_code # ""
    THEN [kind |-> "press", key_code |-> key_code,
          modifier_flags |-> {m \in {"ctrl", "shift", "alt"} :
                                 \E i \in 1..Len(modifiers) : modifiers[i] = m}]
    ELSE NoKeyEvent

KeyEventFor(key_combo) ==
    IF key_combo = "" THEN NoKeyEvent
    ELSE Only({ KeyEventOf(parsed.modifiers,
                           IF Truthy(parsed.key) THEN get_key_code(parsed.key.s) ELSE "")
                : parsed \in {parse_key_combination(key_combo)} })

(***************************************************************************)
(* json.dump(obj, f, indent=2) and json.load(f) on the text of the file.   *)
(* Strings are ASCII; of the escapes, those of the quote, the backslash    *)
(* and the solidus, \n and \t are modelled; numbers are integers.          *)
(***************************************************************************)
PyBool(b) == [t |-> "bool", s |-> IF b THEN "true" ELSE "false", items |-> <<>>]

RECURSIVE Spaces(_)
Spaces(n) == IF n = 0 THEN "" ELSE " " \o Spaces(n - 1)

\* The string written as it is, nothing escaped.
EscapeStr_Nothing(str) == str

\* The body of a JSON string: the quote and the backslash are escaped.
RECURSIVE EscapeStr(_)
EscapeStr(str) ==
    IF str = "" THEN ""
    ELSE (CASE Char(str, 1) = "\"" -> "\\\""
            [] Char(str, 1) = "\\" -> "\\\\"
            [] Char(str, 1) = "\n" -> "\\n"
            [] Char(str, 1) = "\t" -> "\\t"
            [] OTHER -> Char(str, 1)) \o EscapeStr(Tail(str))

JsonStr(str) == "\"" \o EscapeStr(str) \o "\""

\* The encoder with indent=2: a container's items one per line, indented two
\* columns per nesting level; an empty container on one line.
RECURSIVE Dump(_, _)
RECURSIVE DumpItems(_, _, _, _)
DumpItems(items, i, level, is_dict) ==
    IF i > Len(items) THEN ""
    ELSE (IF i > 1 THEN "," ELSE "") \o "\n" \o Spaces(2 * level)
         \o (IF is_dict
             THEN JsonStr(items[i][1]) \o ": " \o Dump(items[i][2], level)
             ELSE Dump(items[i], level))
         \o DumpItems(items, i + 1, level, is_dict)

Dump(v, level) ==
    CASE v.t = "none" -> "null"
      [] v.t = "bool" -> v.s
      [] v.t = "num" -> v.s
      [] v.t = "str" -> JsonStr(v.s)
      [] v.t = "dict" ->
            IF v.items = <<>> THEN "{}"
            ELSE "{" \o DumpItems(v.items, 1, level + 1, TRUE)
                 \o "\n" \o Spaces(2 * level) \o "}"
      [] OTHER ->
            IF v.items = <<>> THEN "[]"
            ELSE "[" \o DumpItems(v.items, 1, level + 1, FALSE)
                 \o "\n" \o Spaces(2 * level) \o "]"

json_dump(obj) == Dump(obj, 0)

\* The decoder.  A parse result: ok, the value, the position after it.
ParseFail == [ok |-> FALSE, val |-> PyNone, pos |-> 0]
Parsed(v, p) == [ok |-> TRUE, val |-> v, pos |-> p]

CharAt(text, i) == IF i >= 1 /\ i <= Len(text) THEN Char(text, i) ELSE ""

RECURSIVE SkipWs(_, _)
SkipWs(text, i) ==
    IF CharAt(text, i) \in Whitespace THEN SkipWs(text, i + 1) ELSE i

\* The string body from position i to the closing quote.
RECURSIVE ScanStr(_, _, _)
ScanStr(text, i, acc) ==
    LET c == CharAt(text, i)
        d == CharAt(text, i + 1)
    IN  CASE c = "" -> ParseFail
          [] c = "\"" -> Parsed(PyStr(acc), i + 1)
          [] c = "\\" ->
                (CASE d \in {"\"", "\\", "/"} -> ScanStr(text, i + 2, acc \o d)
                   [] d = "n" -> ScanStr(text, i + 2, acc \o "\n")
                   [] d = "t" -> ScanStr(text, i + 2, acc \o "\t")
                   [] OTHER -> ParseFail)
          [] c \in {"\n", "\t", "\r"} -> ParseFail
          [] OTHER -> ScanStr(text, i + 1, acc \o c)

RECURSIVE ScanDigits(_, _)
ScanDigits(text, i) ==
    IF CharAt(text, i) \in DigitChars
    THEN ScanDigits(text, i + 1)
    ELSE i

\* An integer: an optional minus, then 0 or digits not starting with 0.
ScanNumber(text, i) ==
    LET first == IF CharAt(text, i) = "-" THEN i + 1 ELSE i
        last == ScanDigits(text, first)
    IN  IF last = first \/ (CharAt(text, first) = "0" /\ last > first + 1)
           \/ CharAt(text, last) \in {".", "e", "E"}
        THEN ParseFail
        ELSE Parsed(PyNum(SubSeq(text, i, last - 1)), last)

Literal(text, i, word, v) ==
    IF i + Len(word) - 1 <= Len(text) /\ SubSeq(text, i, i + Len(word) - 1) = word
    THEN Parsed(v, i + Len(word))
    ELSE ParseFail

RECURSIVE ParseValue(_, _)
RECURSIVE ParseMembers(_, _, _)
RECURSIVE ParseElements(_, _, _)

\* After { or a comma: "key" : value, then a comma or the closing brace.
\* A key given twice keeps its first place and takes the last value.
ParseMembers(text, i, d) ==
    LET k == IF CharAt(text, SkipWs(text, i)) = "\""
             THEN ScanStr(text, SkipWs(text, i) + 1, "")
             ELSE ParseFail
        colon == SkipWs(text, k.pos)
        v == ParseValue(text, colon + 1)
        next == SkipWs(text, v.pos)
    IN  IF ~k.ok \/ CharAt(text, colon) # ":" THEN ParseFail
        ELSE IF ~v.ok THEN ParseFail
        ELSE IF CharAt(text, next) = ","
        THEN ParseMembers(text, next + 1, DictSet(d, k.val.s, v.val))
        ELSE IF CharAt(text, next) = "}"
        THEN Parsed(DictSet(d, k.val.s, v.val), next + 1)
        ELSE ParseFail

ParseElements(text, i, l) ==
    LET v == ParseValue(text, i)
        next == SkipWs(text, v.pos)
    IN  IF ~v.ok THEN ParseFail
        ELSE IF CharAt(text, next) = ","
        THEN ParseElements(text, next + 1, Append(l, v.val))
        ELSE IF CharAt(text, next) = "]"
        THEN Parsed(PyList(Append(l, v.val)), next + 1)
        ELSE ParseFail

ParseValue(text, i) ==
    LET start == SkipWs(text, i)
        c == CharAt(text, start)
    IN  CASE c = "{" ->
                IF CharAt(text, SkipWs(text, start + 1)) = "}"
                THEN Parsed(PyDict(<<>>), SkipWs(text, start + 1) + 1)
                ELSE ParseMembers(text, start + 1, PyDict(<<>>))
          [] c = "[" ->
                IF CharAt(text, SkipWs(text, start + 1)) = "]"
                THEN Parsed(PyList(<<>>), SkipWs(text, start + 1) + 1)
                ELSE ParseElements(text, start + 1, <<>>)
          [] c = "\"" -> ScanStr(text, start + 1, "")
          [] c = "n" -> Literal(text, start, "null", PyNone)
          [] c = "t" -> Literal(text, start, "true", PyBool(TRUE))
          [] c = "f" -> Literal(text, start, "false", PyBool(FALSE))
          [] c = "-" \/ c \in DigitChars -> ScanNumber(text, start)
          [] OTHER -> ParseFail

\* json.load: one value and nothing but whitespace after it, else it raises (ok FALSE).
json_load(text) ==
    LET r == ParseValue(text, 1)
    IN  IF r.ok /\ SkipWs(text, r.pos) > Len(text) THEN r ELSE ParseFail

(***************************************************************************)
(* The configuration file and load_config                                  *)
(***************************************************************************)
MissingFile == [exists |-> FALSE, readable |-> FALSE, writable |-> TRUE, doc |-> ""]

\* load_config(): what json.load returns if the file exists and the read and the
\* parse raise nothing, the defaults otherwise.
load_config(f) ==
    IF f.exists /\ f.readable /\ json_load(f.doc).ok
    THEN json_load(f.doc).val
    ELSE DEFAULT_MAPPINGS

(***************************************************************************)
(* Values every specification starts from: the state __init__ leaves, no   *)
(* thread started, nothing observed yet.                                   *)
(***************************************************************************)
Workers == 1..MaxWorkers

NoEvent == [timestamp |-> 0, value |-> 0, event_type |-> 0, number |-> 0]
NoCallMade == [op |-> "none", was_running |-> FALSE, by |-> 0]
NoCall == [key_code |-> "", modifier_flags |-> {}, focus_widget |-> 0]
NoProbe == [fn |-> "none", combo |-> "", modifiers |-> <<>>, key |-> PyNone,
            key_event |-> NoKeyEvent]
NoObs == [ev |-> NoEvent, before |-> EmptyState, phys_before |-> EmptyState,
          out |-> NoDispatch]

ObjectInit ==
    /\ running = FALSE
    /\ thread = 0
    /\ js_device = 0
    /\ last_state = EmptyState
    /\ event_queue = <<>>

IdleInit ==
    /\ main_pc = "idle"
    /\ pc = [w \in Workers |-> "none"]
    /\ rec = [w \in Workers |-> NoEvent]
    /\ call = [w \in Workers |-> NoCall]
    /\ last_call = NoCallMade

NoObsInit ==
    /\ obs = NoObs
    /\ phys = EmptyState
    /\ scen = [i |-> 0, outs |-> <<>>]
    /\ probe = NoProbe

objectVars == <<running, thread, js_device, event_queue>>
threadVars == <<main_pc, pc, rec, call, last_call, dev>>
decodeVars == <<obs, phys, scen, probe>>
configVars == <<file, cfg_op, saved>>

(***************************************************************************)
(* DecodeSpec: the loop body of process_controller_input applied to one    *)
(* record after another, as a single Input Loop does.                      *)
(***************************************************************************)
\* The mappings a session can start from: no file (the defaults), or a flat file
\* with entries removed and an empty combo.
DecodeMappings ==
    { DEFAULT_MAPPINGS,
      DictDel(DictDel(DictSet(DEFAULT_MAPPINGS, "B", PyStr("")), "LEFT"), "DOWN") }

DecodeButtons == {1, 12}
DecodeAxes == {0, 1, 2}
DecodeAxisValues(axis_num) ==
    CASE axis_num = 0 -> {-32767, -19660, 0, 19660}
      [] axis_num = 1 -> {-32767, 0, 32767}
      [] OTHER -> {32767}
ButtonTypes == {JS_EVENT_BUTTON, JS_EVENT_BUTTON + JS_EVENT_INIT}
AxisTypes == {JS_EVENT_AXIS, JS_EVENT_AXIS + JS_EVENT_INIT}

DecodeRecords ==
    {Pack(0, v, t, n) : v \in {0, 1}, t \in ButtonTypes, n \in DecodeButtons}
    \cup UNION {{Pack(0, v, t, n) : v \in DecodeAxisValues(n), t \in AxisTypes} :
                   n \in DecodeAxes}

\* The state key of the input a record is about: the button's, or the axis direction's
\* of the zone the value lies in ("" in the deadzone and for other records).
IsButtonEvent(ev) == HasBit(ev.event_type, JS_EVENT_BUTTON)
IsAxisEvent(ev) ==
    ~HasBit(ev.event_type, JS_EVENT_BUTTON) /\ HasBit(ev.event_type, JS_EVENT_AXIS)
    /\ ev.number \in {0, 1}
NegKey(ev) == AxisKey(ev.number, AxisNegName(ev.number))
PosKey(ev) == AxisKey(ev.number, AxisPosName(ev.number))

\* What the records say of the physical inputs: a button is held after a record with
\* value # 0, a direction is held after a record of its axis in its zone.
PhysAfter(p, ev) ==
    IF IsButtonEvent(ev) THEN StateSet(p, ButtonKey(ev.number), ev.value # 0)
    ELSE IF IsAxisEvent(ev)
    THEN StateSet(StateSet(p, NegKey(ev), AxisNegative(ev.value)),
                  PosKey(ev), AxisPositive(ev.value))
    ELSE p

Axis0Scenario == <<-32767, -19660, 0, 19660>>

ScenAfter(sc, ev, out) ==
    IF IsAxisEvent(ev) /\ ev.number = 0 /\ sc.i # Len(Axis0Scenario)
    THEN IF sc.i >= 0 /\ ev.value = Axis0Scenario[sc.i + 1]
         THEN [i |-> sc.i + 1, outs |-> Append(sc.outs, out.name)]
         ELSE [i |-> -1, outs |-> <<>>]
    ELSE sc

DecodeInit ==
    /\ mappings \in DecodeMappings
    /\ ObjectInit /\ IdleInit /\ NoObsInit
    /\ dev = "ok"
    /\ file = MissingFile /\ cfg_op = "none" /\ saved = PyNone

ProcessRecord(data) ==
    LET ev == Unpack(data)
        out == Decide(last_state, mappings, ev)
    IN  /\ Len(data) = EVENT_SIZE
        /\ last_state' = UpdateState(last_state, ev)
        /\ obs' = [ev |-> ev, before |-> last_state, phys_before |-> phys, out |-> out]
        /\ phys' = PhysAfter(phys, ev)
        /\ scen' = ScenAfter(scen, ev, out)
        /\ UNCHANGED <<mappings, objectVars, threadVars, configVars, probe>>

DecodeNext == \E data \in DecodeRecords : ProcessRecord(data)

DecodeSpec == DecodeInit /\ [][DecodeNext]_vars

(***************************************************************************)
(* Claims on the decoder, checked under DecodeSpec.  A dispatch is a call  *)
(* of send_key_event with the combo the mapping holds: obs.out.            *)
(***************************************************************************)
Dispatched == obs.out # NoDispatch

\* The state key of the input the observed dispatch is for.
DispatchKey ==
    IF IsButtonEvent(obs.ev) THEN ButtonKey(obs.ev.number)
    ELSE AxisKey(obs.ev.number, obs.out.name)

\* C1: a dispatch happens only at a record that is a physical transition of its
\* input from inactive to active and that finds the input's InputState flag
\* inactive; a record handles one input, so each transition dispatches at most
\* once, and a record arriving while the flag is active dispatches nothing.
C1_DispatchOnlyOnRisingEdge ==
    Dispatched =>
        /\ ~StateGet(obs.before, DispatchKey)
        /\ ~StateGet(obs.phys_before, DispatchKey)
        /\ StateGet(phys, DispatchKey)

\* A mapped button's record with value # 0 arrived while its flag was active.
C1_Witness_HeldNoRepeat ==
    /\ IsButtonEvent(obs.ev) /\ obs.ev.value # 0
    /\ Truthy(DictGet(mappings, CONTROLLER_BUTTONS(obs.ev.number)))
    /\ StateGet(obs.before, ButtonKey(obs.ev.number))
    /\ ~Dispatched

PressRecord == IsButtonEvent(obs.ev) /\ obs.ev.value # 0

\* C2 as stated: every button record with value # 0 that finds the button's
\* last state false dispatches, whatever the button number.
C2_Original_EveryButtonNumber ==
    PressRecord =>
        (Dispatched <=> ~StateGet(obs.before, ButtonKey(obs.ev.number)))

\* The button numbers CONTROLLER_BUTTONS names.
NamedButtonNumbers == 0..11

\* C2, amended: a button record with value # 0 dispatches exactly when it finds
\* the button's last state false, the button number is one CONTROLLER_BUTTONS
\* names and the mapping holds a non-empty combo under that name; the dispatch
\* is of that combo.  Any other such record dispatches nothing.
C2_DispatchOnPressOfMappedButton ==
    PressRecord =>
        LET n == obs.ev.number
            mapped == n \in NamedButtonNumbers
                      /\ DictGet(mappings, CONTROLLER_BUTTONS(n)) \notin {PyNone, PyStr("")}
        IN  IF ~StateGet(obs.before, ButtonKey(n)) /\ mapped
            THEN obs.out = [name |-> CONTROLLER_BUTTONS(n),
                            combo |-> DictGet(mappings, CONTROLLER_BUTTONS(n))]
            ELSE ~Dispatched

\* A mapped button went from false to true and dispatched, with the init bit set.
C2_Witness_PressDispatched ==
    /\ PressRecord /\ HasBit(obs.ev.event_type, JS_EVENT_INIT)
    /\ obs.ev.number = 1
    /\ obs.before = [k \in {ButtonKey(1)} |-> FALSE]
    /\ obs.out = [name |-> "B", combo |-> PyStr("Return")]

\* The direction an axis record's value selects: "" in the deadzone.
ZoneName(ev) ==
    IF AxisNegative(ev.value) THEN AxisNegName(ev.number)
    ELSE IF AxisPositive(ev.value) THEN AxisPosName(ev.number)
    ELSE ""

EntersZone ==
    /\ ZoneName(obs.ev) # ""
    /\ ~StateGet(obs.before, AxisKey(obs.ev.number, ZoneName(obs.ev)))

ScenarioDone == scen.i = Len(Axis0Scenario)

\* C3 as stated: an axis record on axis 0 or 1 dispatches exactly when it enters
\* a zone whose flag is not set; a deadzone record clears both flags; the
\* scenario dispatches LEFT at its first record and RIGHT at its last.
C3_Original_AxisEdges ==
    /\ IsAxisEvent(obs.ev) =>
        /\ Dispatched <=> EntersZone
        /\ Dispatched => obs.out.name = ZoneName(obs.ev)
        /\ ZoneName(obs.ev) = "" =>
              NegKey(obs.ev) \notin DOMAIN last_state /\ PosKey(obs.ev) \notin DOMAIN last_state
    /\ ScenarioDone => scen.outs = <<"LEFT", "", "", "RIGHT">>

DirectionMapped(name) == DictGet(mappings, name) \notin {PyNone, PyStr("")}

\* C3, amended: an axis record on axis 0 or 1 dispatches exactly when it enters
\* a zone whose flag is not set and whose direction has a non-empty combo in
\* the mapping; a further record in the same zone and a deadzone record
\* dispatch nothing, and a deadzone record clears both flags of the axis.  With
\* LEFT and RIGHT mapped, the scenario dispatches LEFT at its first record and
\* RIGHT at its last, and nothing in between.
C3_AxisEdgesOfMappedDirections ==
    /\ IsAxisEvent(obs.ev) =>
        /\ Dispatched <=> (EntersZone /\ DirectionMapped(ZoneName(obs.ev)))
        /\ Dispatched => obs.out = [name |-> ZoneName(obs.ev),
                                    combo |-> DictGet(mappings, ZoneName(obs.ev))]
        /\ ZoneName(obs.ev) = "" =>
              NegKey(obs.ev) \notin DOMAIN last_state /\ PosKey(obs.ev) \notin DOMAIN last_state
    /\ (ScenarioDone /\ DirectionMapped("LEFT") /\ DirectionMapped("RIGHT")) =>
          scen.outs = <<"LEFT", "", "", "RIGHT">>

\* The scenario ran to its end under the default mapping, its last record
\* entering the positive zone from a cleared axis.
C3_Witness_ScenarioRan ==
    /\ ScenarioDone /\ mappings = DEFAULT_MAPPINGS
    /\ obs.ev.value = 19660 /\ IsAxisEvent(obs.ev) /\ obs.ev.number = 0
    /\ obs.out.name = "RIGHT"
    /\ last_state = [k \in {"axis_0_RIGHT"} |-> TRUE]

(***************************************************************************)
(* Spec: the main thread calling start() and stop(), and the worker        *)
(* threads running run_loop.  A step is one access to the shared object    *)
(* or to the device; thread-local work rides along with the next access.   *)
(***************************************************************************)
\* The records the device delivers here: button 1 (B) pressed and released.
ThreadRecords == {Pack(0, 1, JS_EVENT_BUTTON, 1), Pack(0, 0, JS_EVENT_BUTTON, 1)}

\* mw.app.focusWidget(): 0 is None.
Widgets == {0, 1}

\* Worker w is in the while loop of run_loop, the device acquired.
Polling(w) == pc[w] \in {"loop", "read", "handle", "release", "set"}

restVars == <<mappings, event_queue, obs, phys, scen, file, cfg_op, saved, probe>>

MainCall(op) == [op |-> op, was_running |-> running, by |-> 0]
WorkerCall(op, w) == [op |-> op, was_running |-> FALSE, by |-> w]

Goto(w, label) == pc' = [pc EXCEPT ![w] = label]

ThreadInit ==
    /\ file = MissingFile
    /\ mappings = load_config(file)
    /\ ObjectInit /\ IdleInit /\ NoObsInit
    /\ dev \in {"ok", "gone"}
    /\ cfg_op = "none" /\ saved = PyNone

\* start() without its test of self.running.
Start_NoRunningTest ==
    /\ main_pc = "idle"
    /\ last_call' = MainCall("start")
    /\ \E w \in Workers :
          /\ pc[w] = "none" /\ \A v \in Workers : v < w => pc[v] # "none"
          /\ running' = TRUE
          /\ thread' = w
          /\ Goto(w, "detect")
    /\ UNCHANGED <<js_device, last_state, main_pc, rec, call, dev, restVars>>

\* start(): returns at once if running, else raises the flag and starts a new thread
\* (the lowest free worker) on run_loop.
Start ==
    /\ main_pc = "idle"
    /\ last_call' = MainCall("start")
    /\ IF running
       THEN UNCHANGED <<running, thread, pc>>
       ELSE \E w \in Workers :
               /\ pc[w] = "none" /\ \A v \in Workers : v < w => pc[v] # "none"
               /\ running' = TRUE
               /\ thread' = w
               /\ Goto(w, "detect")
    /\ UNCHANGED <<js_device, last_state, main_pc, rec, call, dev, restVars>>

\* stop() up to thread.join: lowers the flag; with no thread it has returned.
Stop ==
    /\ main_pc = "idle"
    /\ last_call' = MainCall("stop")
    /\ running' = FALSE
    /\ main_pc' = IF thread # 0 THEN "join" ELSE "idle"
    /\ UNCHANGED <<thread, js_device, last_state, pc, rec, call, dev, restVars>>

\* thread.join(timeout=1) returns, the thread finished or not; self.thread = None.
JoinReturn ==
    /\ main_pc = "join"
    /\ last_call' = MainCall("join")
    /\ thread' = 0
    /\ main_pc' = "idle"
    /\ UNCHANGED <<running, js_device, last_state, pc, rec, call, dev, restVars>>

\* detect_controller() finds no device node, or the probe of the node fails.
DetectNone(w) ==
    /\ pc[w] = "detect"
    /\ Goto(w, "exit")
    /\ last_call' = NoCallMade
    /\ UNCHANGED <<running, thread, js_device, last_state, main_pc, rec, call, dev, restVars>>

\* A detection that goes on to the open without a node found.
DetectOpen_WithoutNode(w, ok) ==
    /\ pc[w] = "detect"
    /\ js_device' = w
    /\ Goto(w, IF ok THEN "loop" ELSE "exit")
    /\ last_call' = NoCallMade
    /\ UNCHANGED <<running, thread, last_state, main_pc, rec, call, dev, restVars>>

\* detect_controller() opens the node; ok says whether fcntl then succeeds.
DetectOpen(w, ok) ==
    /\ pc[w] = "detect"
    /\ dev = "ok"
    /\ js_device' = w
    /\ Goto(w, IF ok THEN "loop" ELSE "exit")
    /\ last_call' = NoCallMade
    /\ UNCHANGED <<running, thread, last_state, main_pc, rec, call, dev, restVars>>

\* The loop test ignoring self.running.
LoopCheck_IgnoresRunning(w) ==
    /\ pc[w] = "loop"
    /\ Goto(w, IF js_device # 0 THEN "read" ELSE "loop")
    /\ last_call' = NoCallMade
    /\ UNCHANGED <<running, thread, js_device, last_state, main_pc, rec, call, dev, restVars>>

\* while self.running: and the first line of process_controller_input; a tick that
\* finds js_device None returns, and after the sleep the loop tests again.
LoopCheck(w) ==
    /\ pc[w] = "loop"
    /\ Goto(w, IF ~running THEN "exit" ELSE IF js_device # 0 THEN "read" ELSE "loop")
    /\ last_call' = NoCallMade
    /\ UNCHANGED <<running, thread, js_device, last_state, main_pc, rec, call, dev, restVars>>

\* self.js_device.read on None or on a closed file: AttributeError or ValueError, which
\* nothing catches; the thread dies and run_loop's cleanup does not run.
ReadCrash(w) ==
    /\ pc[w] = "read"
    /\ js_device <= 0
    /\ Goto(w, "none")
    /\ last_call' = NoCallMade
    /\ UNCHANGED <<running, thread, js_device, last_state, main_pc, rec, call, dev, restVars>>

\* A read without a record that ends the loop as well as the tick.
EndTick_LeavesLoop(w) ==
    /\ pc[w] = "read"
    /\ js_device > 0
    /\ Goto(w, "exit")
    /\ last_call' = WorkerCall("read_nothing", w)
    /\ UNCHANGED <<running, thread, js_device, last_state, main_pc, rec, call, dev, restVars>>

\* The read returns nothing or a short record, or raises OSError (no data on the
\* non-blocking file, or the device gone): the tick ends, the loop goes on.
EndTick(w) ==
    /\ pc[w] = "read"
    /\ js_device > 0
    /\ Goto(w, "loop")
    /\ last_call' = WorkerCall("read_nothing", w)
    /\ UNCHANGED <<running, thread, js_device, last_state, main_pc, rec, call, dev, restVars>>

\* The read returns a whole record, which is unpacked.
ReadRecord(w, data) ==
    /\ pc[w] = "read"
    /\ js_device > 0
    /\ dev = "ok"
    /\ Len(data) = EVENT_SIZE
    /\ rec' = [rec EXCEPT ![w] = Unpack(data)]
    /\ Goto(w, "handle")
    /\ last_call' = NoCallMade
    /\ UNCHANGED <<running, thread, js_device, last_state, main_pc, call, dev, restVars>>

\* The edge test on last_state and the mapping lookup; on a dispatch send_key_event
\* runs on this thread up to sendEvent(press): with a key that resolves and a focus
\* widget fw the press is sent.
HandleSend(w, fw, ke) ==
    /\ call' = [call EXCEPT ![w] =
                   IF ke.kind = "press" /\ fw # 0
                   THEN [key_code |-> ke.key_code, modifier_flags |-> ke.modifier_flags,
                         focus_widget |-> fw]
                   ELSE NoCall]
    /\ Goto(w, IF ke.kind = "press" /\ fw # 0 THEN "release" ELSE "set")
    /\ last_call' = IF ke.kind = "press" /\ fw # 0
                    THEN WorkerCall("press", w)
                    ELSE NoCallMade

SendKeyEvent(out) == IF out = NoDispatch THEN NoKeyEvent ELSE KeyEventFor(out.combo.s)

Handle(w, fw) ==
    /\ pc[w] = "handle"
    /\ HandleSend(w, fw, SendKeyEvent(Decide(last_state, mappings, rec[w])))
    /\ UNCHANGED <<running, thread, js_device, last_state, main_pc, rec, dev, restVars>>

\* After the sleep, sendEvent(release) to the same widget.
Release(w) ==
    /\ pc[w] = "release"
    /\ call' = [call EXCEPT ![w] = NoCall]
    /\ Goto(w, "set")
    /\ last_call' = WorkerCall("release", w)
    /\ UNCHANGED <<running, thread, js_device, last_state, main_pc, rec, dev, restVars>>

\* The record's write to last_state; the tick goes on to the next read.
SetState(w) ==
    /\ pc[w] = "set"
    /\ last_state' = UpdateState(last_state, rec[w])
    /\ rec' = [rec EXCEPT ![w] = NoEvent]
    /\ Goto(w, "read")
    /\ last_call' = NoCallMade
    /\ UNCHANGED <<running, thread, js_device, main_pc, call, dev, restVars>>

\* run_loop's cleanup: if self.js_device, close it (-v is the closed file of worker v);
\* else the thread ends.
ExitCheck(w) ==
    /\ pc[w] = "exit"
    /\ IF js_device # 0
       THEN /\ js_device' = IF js_device > 0 THEN -js_device ELSE js_device
            /\ Goto(w, "unset")
            /\ last_call' = WorkerCall("close", w)
       ELSE /\ Goto(w, "none")
            /\ last_call' = NoCallMade
            /\ UNCHANGED js_device
    /\ UNCHANGED <<running, thread, last_state, main_pc, rec, call, dev, restVars>>

\* self.js_device = None, and the thread ends.
Unset(w) ==
    /\ pc[w] = "unset"
    /\ js_device' = 0
    /\ Goto(w, "none")
    /\ last_call' = WorkerCall("unset", w)
    /\ UNCHANGED <<running, thread, last_state, main_pc, rec, call, dev, restVars>>

\* The controller is unplugged: the node disappears and every read fails from now on.
Unplug ==
    /\ dev = "ok"
    /\ dev' = "gone"
    /\ last_call' = NoCallMade
    /\ UNCHANGED <<running, thread, js_device, last_state, main_pc, pc, rec, call, restVars>>

WorkerStep(w) ==
    \/ DetectNone(w)
    \/ \E ok \in BOOLEAN : DetectOpen(w, ok)
    \/ LoopCheck(w)
    \/ ReadCrash(w)
    \/ EndTick(w)
    \/ \E data \in ThreadRecords : ReadRecord(w, data)
    \/ \E fw \in Widgets : Handle(w, fw)
    \/ Release(w)
    \/ SetState(w)
    \/ ExitCheck(w)
    \/ Unset(w)

Next ==
    \/ Start
    \/ Stop
    \/ JoinReturn
    \/ Unplug
    \/ \E w \in Workers : WorkerStep(w)

Spec == ThreadInit /\ [][Next]_vars

\* The scheduler runs every live thread again and again, and every poll tick ends:
\* the device has no endless supply of records.
FairSpec ==
    /\ Spec
    /\ \A w \in Workers : WF_vars(WorkerStep(w)) /\ SF_vars(EndTick(w))

(***************************************************************************)
(* Claims on the threads, checked under Spec and FairSpec                  *)
(***************************************************************************)
\* C4: a start() that finds the loop running, and a stop() that finds it not
\* running, change none of running, thread, js_device and last_state, and start
\* no worker thread.
C4_RedundantCallsChangeNothing ==
    [][ ( \/ last_call'.op = "start" /\ last_call'.was_running
          \/ last_call'.op = "stop" /\ ~last_call'.was_running )
        => UNCHANGED <<running, thread, js_device, last_state, pc>> ]_vars

\* start() has just been called while the worker it started earlier is polling.
C4_Witness_StartWhilePolling ==
    /\ last_call.op = "start" /\ last_call.was_running
    /\ thread # 0 /\ Polling(thread)

\* stop() has just been called on a stopped remapper that has run before.
C4_Witness_StopWhileStopped ==
    /\ last_call.op = "stop" /\ ~last_call.was_running
    /\ last_state # EmptyState

\* C5 as stated: whenever a worker acquires the device and enters the polling loop,
\* last_state is empty.
C5_Original_EmptyOnEntry ==
    [][ \A w \in Workers :
          (pc[w] = "detect" /\ pc'[w] = "loop") => last_state' = EmptyState ]_vars

\* C6 as stated: every sendEvent of a key press or release is made by the main
\* thread (thread 0), never by a worker.
C6_Original_MainThreadDelivers ==
    last_call.op \in {"press", "release"} => last_call.by = 0

\* C7 as stated: a polling worker reaches Idle once the stop flag is raised (unless
\* the flag is lowered again first), and also once the device is gone for good.
C7_Original_StopOrUnreadableEndsPolling ==
    \A w \in Workers :
        /\ (Polling(w) /\ ~running) ~> (pc[w] = "none" \/ running)
        /\ (Polling(w) /\ dev = "gone") ~> (pc[w] = "none")

\* C8: from any state with the stop flag raised (running false), unless start()
\* raises running again, a state is reached where every worker thread has ended
\* and js_device is None, the device closed by run_loop's cleanup.
C8_StopLeadsToQuiescence ==
    ~running ~> (running \/ ((\A w \in Workers : pc[w] = "none") /\ js_device = 0))

\* stop() is waiting in join, and the worker has just closed the device, set
\* js_device to None and ended.
C8_Witness_WorkerClosedAfterStop ==
    /\ ~running /\ main_pc = "join"
    /\ last_call.op = "unset"
    /\ js_device = 0 /\ \A w \in Workers : pc[w] = "none"

\* stop() has been called while the worker was still in detect_controller.
C8_Witness_StopDuringAcquisition ==
    /\ last_call.op = "stop" /\ last_call.was_running
    /\ thread # 0 /\ pc[thread] = "detect"

(***************************************************************************)
(* ConfigSpec: the configuration file, load_config at construction, and    *)
(* the settings dialog's add, update and remove, each followed by          *)
(* save_config.                                                            *)
(***************************************************************************)
TextFile(doc) == [exists |-> TRUE, readable |-> TRUE, writable |-> TRUE, doc |-> doc]

\* The contents the file is found with: empty, cut off mid-object, valid JSON that
\* is no object, an object with a number, with text after it, flat objects.
ConfigDocs ==
    { "", "{\"A\": \"z\"", "[]", "null", "{\"A\": 1}", "{\"A\": \"z\"} x",
      "{}", "{\"A\": \"z\"}", "{\n  \"B\": \"Ctrl+y\",\n  \"A\": \"\\\\\"\n}" }

\* A file the process may not read it may not write either.
ConfigFiles ==
    {MissingFile, [MissingFile EXCEPT !.writable = FALSE],
     [exists |-> TRUE, readable |-> FALSE, writable |-> FALSE, doc |-> ""],
     [TextFile("{\"A\": \"z\"}") EXCEPT !.writable = FALSE]}
    \cup {TextFile(doc) : doc \in ConfigDocs}

\* The entries of the dialog's button box the model selects, and the texts typed.
DialogButtons == {"A", "LEFT_STICK"}
DialogTexts == {"  ", " Ctrl+z ", "\"\\"}

\* What the file can be turned into from outside: removed, replaced, write-protected.
ExternalFiles(f) == {MissingFile, TextFile("[]"), [f EXCEPT !.writable = FALSE]}

CfgOp(op, raised) == [op |-> op, raised |-> raised]

ConfigInit ==
    /\ file \in ConfigFiles
    /\ mappings = load_config(file)
    /\ ObjectInit /\ IdleInit /\ NoObsInit
    /\ dev = "ok"
    /\ cfg_op = CfgOp("load", FALSE)
    /\ saved = PyNone

\* A new session constructs the remapper: __init__ calls load_config.
Construct ==
    /\ mappings' = load_config(file)
    /\ cfg_op' = CfgOp("load", FALSE)
    /\ UNCHANGED <<file, saved, objectVars, last_state, threadVars, decodeVars>>

\* save_config() of the mapping m: open(CONFIG_FILE, "w") raises on a file that may
\* not be written; else the file holds json.dump(m, indent=2).
save_config(m, op) ==
    IF file.writable
    THEN /\ file' = [exists |-> TRUE,
                     readable |-> IF file.exists THEN file.readable ELSE TRUE,
                     writable |-> TRUE,
                     doc |-> json_dump(m)]
         /\ saved' = m
         /\ cfg_op' = CfgOp(op, FALSE)
    ELSE /\ UNCHANGED <<file, saved>>
         /\ cfg_op' = CfgOp(op, TRUE)

\* The dialog exists only if its setup_ui could list self.remapper.mappings.items().
DialogOpen == mappings.t = "dict"

add_mapping(button, text) ==
    /\ DialogOpen
    /\ IF button # "" /\ StrStrip(text) # ""
       THEN /\ mappings' = DictSet(mappings, button, PyStr(StrStrip(text)))
            /\ save_config(mappings', "add")
       ELSE /\ cfg_op' = CfgOp("add", FALSE)
            /\ UNCHANGED <<mappings, file, saved>>
    /\ UNCHANGED <<objectVars, last_state, threadVars, decodeVars>>

update_mapping(button, text) ==
    /\ DialogOpen
    /\ IF button # "" /\ StrStrip(text) # ""
       THEN /\ mappings' = DictSet(mappings, button, PyStr(StrStrip(text)))
            /\ save_config(mappings', "update")
       ELSE /\ cfg_op' = CfgOp("update", FALSE)
            /\ UNCHANGED <<mappings, file, saved>>
    /\ UNCHANGED <<objectVars, last_state, threadVars, decodeVars>>

remove_mapping(button) ==
    /\ DialogOpen
    /\ IF button \in DictKeys(mappings)
       THEN /\ mappings' = DictDel(mappings, button)
            /\ save_config(mappings', "remove")
       ELSE /\ cfg_op' = CfgOp("remove", FALSE)
            /\ UNCHANGED <<mappings, file, saved>>
    /\ UNCHANGED <<objectVars, last_state, threadVars, decodeVars>>

\* Something else rewrites, removes or protects the file.
ExternalEdit(f) ==
    /\ f # file
    /\ file' = f
    /\ saved' = PyNone
    /\ cfg_op' = CfgOp("edit", FALSE)
    /\ UNCHANGED <<mappings, objectVars, last_state, threadVars, decodeVars>>

ConfigNext ==
    \/ Construct
    \/ \E button \in DialogButtons, text \in DialogTexts : add_mapping(button, text)
    \/ \E button \in DialogButtons, text \in DialogTexts : update_mapping(button, text)
    \/ \E button \in DialogButtons : remove_mapping(button)
    \/ \E f \in ExternalFiles(file) : ExternalEdit(f)

ConfigSpec == ConfigInit /\ [][ConfigNext]_vars

(***************************************************************************)
(* Claims on the configuration, checked under ConfigSpec                   *)
(***************************************************************************)
\* A flat string-to-string mapping: a dict whose values are all str.
IsFlatMapping(v) ==
    v.t = "dict" /\ \A i \in 1..Len(v.items) : v.items[i][2].t = "str"

\* The file is missing, unreadable, not parseable, or parses to something that is
\* no flat mapping.
Malformed(f) ==
    \/ ~f.exists
    \/ ~f.readable
    \/ ~json_load(f.doc).ok
    \/ ~IsFlatMapping(json_load(f.doc).val)

\* C9 as stated: after load_config on a missing or malformed file the mapping is
\* exactly DEFAULT_MAPPINGS, and nothing was raised.
C9_Original_MalformedYieldsDefaults ==
    (cfg_op.op = "load" /\ Malformed(file))
        => (mappings = DEFAULT_MAPPINGS /\ ~cfg_op.raised)

\* Two mappings with exactly the same keys and the same value under each.
SameMapping(a, b) ==
    /\ a.t = "dict" /\ b.t = "dict"
    /\ DictKeys(a) = DictKeys(b)
    /\ \A k \in DictKeys(a) : DictGet(a, k) = DictGet(b, k)

\* C10: load_config on the file a completed save_config wrote yields a mapping with
\* exactly the keys and values of the mapping saved, the empty mapping included.
C10_SaveThenLoadRoundTrips ==
    (cfg_op.op = "load" /\ saved # PyNone) => SameMapping(mappings, saved)

\* The empty mapping was saved and has been loaded back.
C10_Witness_EmptyMappingReloaded ==
    /\ cfg_op.op = "load"
    /\ saved = PyDict(<<>>)
    /\ mappings = PyDict(<<>>)

\* A mapping with a combo of a quote and a backslash was saved and loaded back.
C10_Witness_EscapedComboReloaded ==
    /\ cfg_op.op = "load"
    /\ saved # PyNone
    /\ DictGet(saved, "A") = PyStr("\"\\")
    /\ DictGet(mappings, "A") = PyStr("\"\\")

(***************************************************************************)
(* Combo parsing and resolution, as pure functions: KeySpec applies        *)
(* parse_key_combination and send_key_event (up to its focus test) to the  *)
(* combos built from at most three of KeyTokens.                           *)
(***************************************************************************)
KeyTokens == {"Ctrl", "control", "Shift", " ALT ", "z", "Return", "Unknown123", "", "-"}

Combos ==
    KeyTokens
    \cup {a \o "+" \o b : a \in KeyTokens, b \in KeyTokens}
    \cup {a \o "+" \o b \o "+" \o c : a \in KeyTokens, b \in KeyTokens, c \in KeyTokens}

KeyInit ==
    /\ mappings = DEFAULT_MAPPINGS
    /\ ObjectInit /\ IdleInit /\ NoObsInit
    /\ dev = "ok"
    /\ file = MissingFile /\ cfg_op = "none" /\ saved = PyNone

ParseCombo(combo) ==
    /\ probe' = Only({ [fn |-> "parse_key_combination", combo |-> combo,
                        modifiers |-> parsed.modifiers, key |-> parsed.key,
                        key_event |-> NoKeyEvent]
                      : parsed \in {parse_key_combination(combo)} })
    /\ UNCHANGED <<mappings, objectVars, last_state, threadVars, configVars, obs, phys, scen>>

SendCombo(key_combo) ==
    /\ probe' = [fn |-> "send_key_event", combo |-> key_combo, modifiers |-> <<>>,
                 key |-> PyNone, key_event |-> KeyEventFor(key_combo)]
    /\ UNCHANGED <<mappings, objectVars, last_state, threadVars, configVars, obs, phys, scen>>

\* One call in a behaviour: the functions keep no state between calls.
KeyNext ==
    /\ probe = NoProbe
    /\ \/ \E combo \in Combos : ParseCombo(combo)
       \/ \E combo \in Combos : SendCombo(combo)

KeySpec == KeyInit /\ [][KeyNext]_vars

\* The combo of the probe as the claim reads it: its tokens, split on "+", trimmed and
\* lowercased; the modifier each names; the last of them that names none.
ProbeTokens ==
    LET parts == StrSplit(probe.combo, "+")
    IN  [i \in 1..Len(parts) |-> StrLower(StrStrip(parts[i]))]

ModifierNamed(token) ==
    IF token \in {"ctrl", "control"} THEN "ctrl"
    ELSE IF token \in {"shift", "alt"} THEN token
    ELSE ""

ProbeModifierSet ==
    {ModifierNamed(ProbeTokens[i]) : i \in 1..Len(ProbeTokens)} \ {""}

ProbePrimaryKey ==
    LET keys == {i \in 1..Len(ProbeTokens) : ModifierNamed(ProbeTokens[i]) = ""}
    IN  IF keys = {} THEN PyNone
        ELSE PyStr(ProbeTokens[CHOOSE i \in keys : \A j \in keys : j <= i])

KeyResolves(key) ==
    /\ key # PyNone
    /\ \/ Len(key.s) = 1
       \/ key.s \in DOMAIN SpecialKeys

\* C11: parsing a combo yields as modifiers the set of ctrl, shift, alt its trimmed,
\* lowercased tokens name (control is ctrl, duplicates collapse) and as primary key the
\* last token that names no modifier; "Ctrl+Shift+z" gives {ctrl, shift} and z, "Return"
\* gives no modifier and return; send_key_event prepares a key event only if the primary
\* key is a single character or a name of the named-key table, then with exactly the
\* parsed modifiers as flags, and "Ctrl+Unknown123" gives none.
C11_ComboParsingAndResolution ==
    /\ probe.fn = "parse_key_combination" =>
          /\ {probe.modifiers[i] : i \in 1..Len(probe.modifiers)} = ProbeModifierSet
          /\ probe.key = ProbePrimaryKey
          /\ probe.combo = "Ctrl+Shift+z" =>
                /\ {probe.modifiers[i] : i \in 1..Len(probe.modifiers)} = {"ctrl", "shift"}
                /\ probe.key = PyStr("z")
          /\ probe.combo = "Return" =>
                /\ probe.modifiers = <<>>
                /\ probe.key = PyStr("return")
    /\ probe.fn = "send_key_event" =>
          /\ probe.key_event.kind = "press" =>
                /\ KeyResolves(ProbePrimaryKey)
                /\ probe.key_event.modifier_flags = ProbeModifierSet
          /\ probe.combo = "Ctrl+Unknown123" => probe.key_event.kind = "none"
          /\ probe.combo = "Ctrl+Shift+z" =>
                probe.key_event = [kind |-> "press", key_code |-> "Key_Z",
                                   modifier_flags |-> {"ctrl", "shift"}]

\* A parse whose modifier list holds ctrl twice, after a key that a later key replaces.
C11_Witness_DuplicatesAndLastKey ==
    /\ probe.fn = "parse_key_combination"
    /\ probe.combo = "control+Ctrl+z"
    /\ probe.modifiers = <<"ctrl", "ctrl">>
    /\ probe.key = PyStr("z")

C11_Witness_LastKeyWins ==
    /\ probe.fn = "parse_key_combination"
    /\ probe.combo = "z+Ctrl+Return"
    /\ probe.key = PyStr("return")

C11_Witness_UnresolvedNoDispatch ==
    /\ probe.fn = "send_key_event"
    /\ probe.combo = "Ctrl+Unknown123"
    /\ probe.key_event = NoKeyEvent

(***************************************************************************)
(* Claims on the synthetic key events, checked under Spec.  A worker at    *)
(* "release" has sent its press (call[w]) and not yet its release.         *)
(***************************************************************************)
PressPending(w) == pc[w] = "release"

\* C12 (as stated): a step that sends a press sends it to a widget that holds focus, with
\* no other press waiting for its release; the release that follows is the sender's own,
\* with the key, flags and widget of its press, and no other press is waiting; so presses
\* and releases alternate in the stream of events.
C12_Original_PressThenOwnRelease ==
    [][ /\ last_call'.op = "press" =>
              /\ call'[last_call'.by].focus_widget # 0
              /\ call'[last_call'.by].key_code # ""
              /\ \A v \in Workers : ~PressPending(v)
        /\ last_call'.op = "release" =>
              /\ PressPending(last_call'.by)
              /\ \A v \in Workers \ {last_call'.by} : ~PressPending(v)
      ]_vars

(***************************************************************************)
(* Claims on the dialog's operations, checked under ConfigSpec             *)
(***************************************************************************)
DialogOps == {"add", "update", "remove"}

\* The file holds exactly mapping m: it reads back as m.
FileHolds(f, m) == f.exists /\ json_load(f.doc).ok /\ json_load(f.doc).val = m

\* C13 (as stated): a dialog operation that mutates the mapping leaves the file holding
\* exactly the new mapping; one that leaves the mapping as it was either wrote that
\* same mapping or left the file as it was; and once the file holds the mapping, it
\* holds it after every further dialog operation.
C13_Original_FileHoldsMappingAfterMutation ==
    [][ cfg_op'.op \in DialogOps =>
          /\ mappings' # mappings => FileHolds(file', mappings')
          /\ mappings' = mappings => file' = file \/ FileHolds(file', mappings')
          /\ FileHolds(file, mappings) => FileHolds(file', mappings')
      ]_vars

(***************************************************************************)
(* Claims on the worker's reads and on device acquisition, under Spec      *)
(***************************************************************************)
\* C14: a read that yields no whole record (nothing, a short record, or OSError) ends
\* the tick and nothing else: the reader is back at run_loop's loop test, last_state,
\* the device handle and the running flag are as they were, and no key event is sent.
C14_ReadWithoutRecordOnlyEndsTick ==
    [][ last_call'.op = "read_nothing" =>
          /\ pc[last_call'.by] = "read"
          /\ pc'[last_call'.by] = "loop"
          /\ \A v \in Workers \ {last_call'.by} : pc'[v] = pc[v]
          /\ last_state' = last_state
          /\ js_device' = js_device
          /\ call' = call
          /\ running' = running /\ thread' = thread
      ]_vars

\* A tick that processed a press ended on a failing read of the unplugged device: the
\* flag of the press is kept and the worker is in the loop.
C14_Witness_TickEndedAfterRecord ==
    /\ last_call.op = "read_nothing"
    /\ dev = "gone"
    /\ pc[last_call.by] = "loop"
    /\ StateGet(last_state, ButtonKey(1))

\* The worker is past run_loop's loop: at the cleanup, or about to unset js_device.
Leaving(w) == pc[w] \in {"exit", "unset"}

\* C15: a worker that finds no device node, or whose detection fails, goes from the
\* detection straight to run_loop's cleanup, opening nothing if no node exists; from
\* there it only ends: it reads nothing, sends no key event, writes no last_state, and
\* when it ends js_device is None.
C15_FailedAcquisitionNeverPolls ==
    [][ \A w \in Workers :
          /\ pc[w] = "detect" /\ dev = "gone" /\ pc'[w] # "detect" =>
                pc'[w] = "exit" /\ js_device' = js_device /\ last_state' = last_state
          /\ Leaving(w) /\ pc'[w] # pc[w] =>
                /\ pc'[w] \in {"unset", "none"}
                /\ last_state' = last_state
                /\ call' = call /\ rec' = rec
                /\ last_call'.op \in {"none", "close", "unset"}
                /\ pc'[w] = "none" => js_device' = 0
      ]_vars

\* The worker start() launched found no node and has ended, with running still set.
C15_Witness_EndedWithoutDevice ==
    /\ dev = "gone"
    /\ running /\ thread = 1
    /\ \A w \in Workers : pc[w] = "none"
    /\ js_device = 0
    /\ last_state = EmptyState

(***************************************************************************)
(* The axis thresholds, as a pure function of the record: AxisSpec feeds   *)
(* one axis record, of any signed 16-bit value, to the loop body of a      *)
(* remapper whose last_state is empty.                                     *)
(***************************************************************************)
AxisRecord(v, n) == Pack(0, v, JS_EVENT_AXIS, n)

AxisInit ==
    /\ mappings = DEFAULT_MAPPINGS
    /\ ObjectInit /\ IdleInit /\ NoObsInit
    /\ dev = "ok"
    /\ file = MissingFile /\ cfg_op = "none" /\ saved = PyNone

AxisNext ==
    /\ obs = NoObs
    /\ \E v \in -32768..32767, n \in {0, 1} : ProcessRecord(AxisRecord(v, n))

AxisSpec == AxisInit /\ [][AxisNext]_vars

\* The zone the claim gives a raw value.
ZoneOfRaw(v) == IF v <= -16384 THEN "negative" ELSE IF v >= 16384 THEN "positive" ELSE "deadzone"

\* The zone the loop body chose for the observed record, read off the flags it left
\* in last_state (which was empty): "both" if it set both.
ZoneChosen ==
    LET neg == StateGet(last_state, NegKey(obs.ev))
        pos == StateGet(last_state, PosKey(obs.ev))
    IN  IF neg /\ pos THEN "both"
        ELSE IF neg THEN "negative" ELSE IF pos THEN "positive" ELSE "deadzone"

\* C16: for every raw value v of an axis 0 or 1 record the loop body selects the
\* negative direction iff v <= -16384, the positive one iff v >= 16384, and neither
\* otherwise; it dispatches the combo of the selected direction and of no other; and
\* v = -32768 is negative.
C16_AxisZoneOfRawValue ==
    obs # NoObs =>
        /\ ZoneChosen = ZoneOfRaw(obs.ev.value)
        /\ obs.out.name = ( CASE ZoneOfRaw(obs.ev.value) = "negative" -> AxisNegName(obs.ev.number)
                               [] ZoneOfRaw(obs.ev.value) = "positive" -> AxisPosName(obs.ev.number)
                               [] OTHER -> "" )
        /\ obs.ev.value = -32768 => ZoneChosen = "negative"

\* The record with the greatest value of the negative zone has set the flag of UP.
C16_Witness_AtNegativeThreshold ==
    /\ obs.ev.value = -16384
    /\ obs.ev.number = 1
    /\ StateGet(last_state, AxisKey(1, "UP"))
    /\ obs.out.name = "UP"

C16_Witness_MostNegativeValue ==
    /\ obs.ev.value = -32768
    /\ StateGet(last_state, AxisKey(0, "LEFT"))

(***************************************************************************)
(* Further claims on the decoder, checked under DecodeSpec                 *)
(***************************************************************************)
\* The type is a byte; JS_EVENT_INIT is its highest bit.
HasInitBit(ev) == ev.event_type >= JS_EVENT_INIT

\* The same record with the init bit cleared.
WithoutInitBit(ev) ==
    IF HasInitBit(ev) THEN [ev EXCEPT !.event_type = ev.event_type - JS_EVENT_INIT] ELSE ev

\* C17: a record with the init bit set has left last_state as the same record without
\* that bit would have, from the state it found, and caused the same dispatch.
C17_InitBitMakesNoDifference ==
    HasInitBit(obs.ev) =>
        /\ last_state = UpdateState(obs.before, WithoutInitBit(obs.ev))
        /\ obs.out = Decide(obs.before, mappings, WithoutInitBit(obs.ev))

\* An init replay of a held button 1 was dispatched and set the button's flag.
C17_Witness_InitPressDispatched ==
    /\ obs.ev.event_type = JS_EVENT_BUTTON + JS_EVENT_INIT
    /\ obs.ev.number = 1 /\ obs.ev.value = 1
    /\ Dispatched
    /\ StateGet(last_state, ButtonKey(1))

\* An init replay of axis 0 held left was dispatched as LEFT.
C17_Witness_InitAxisDispatched ==
    /\ obs.ev.event_type = JS_EVENT_AXIS + JS_EVENT_INIT
    /\ obs.ev.number = 0
    /\ obs.out.name = "LEFT"
    /\ StateGet(last_state, AxisKey(0, "LEFT"))

\* C19 (as stated): the two direction flags of an axis are never both set.
C19_Original_OneDirectionPerAxis ==
    \A axis_num \in {0, 1} :
        ~ ( /\ StateGet(last_state, AxisKey(axis_num, AxisNegName(axis_num)))
            /\ StateGet(last_state, AxisKey(axis_num, AxisPosName(axis_num))) )

(***************************************************************************)
(* Claims on the worker threads, checked under Spec                        *)
(***************************************************************************)
\* C18 (as stated): at most one worker is in the polling loop at any time.
C18_Original_AtMostOnePolling ==
    \A w \in Workers, v \in Workers : Polling(w) /\ Polling(v) => w = v

\* The thread of worker w has been started and has not ended.
Alive(w) == pc[w] # "none"

\* C20 (as stated): while running is set a worker is alive, and a start() that finds
\* no worker alive launches one, which attempts the acquisition.
C20_Original_RunningHasWorker ==
    /\ [](running => \E w \in Workers : Alive(w))
    /\ [][ last_call'.op = "start" /\ (\A w \in Workers : ~Alive(w)) =>
              \E w \in Workers : pc'[w] = "detect" ]_vars

====
